---- MODULE Spec2Model ----
(***************************************************************************)
(* Model of android_device_manager.android_device.AndroidDevice: the       *)
(* lifecycle state machine of one device handle (create, delete, start,    *)
(* stop), its guarded control operations and its context-manager entry and *)
(* exit.  The three collaborators (AVDManager, EmulatorManager, AdbClient) *)
(* are external: every call to one of them either succeeds or raises one   *)
(* of the exception kinds it can raise, chosen nondeterministically.       *)
(***************************************************************************)
EXTENDS Integers, Sequences, FiniteSets, TLC

\* Bound of the model: the number of package names the client may list.
NumPackages == 2

Packages == 1..NumPackages

\* AndroidDeviceState
NOT_CREATED == "not_created"
CREATED == "created"
RUNNING == "running"
STOPPED == "stopped"
ERROR == "error"
AndroidDeviceState == {NOT_CREATED, CREATED, RUNNING, STOPPED, ERROR}

\* Outcome of a call: OK, or the kind of the exception that left it.
OK == "ok"
AVDCreationError == "AVDCreationError"
AVDDeletionError == "AVDDeletionError"
EmulatorStartError == "EmulatorStartError"
ADBError == "ADBError"
TimeoutError == "TimeoutError"
AndroidDeviceError == "AndroidDeviceError"
\* Any other subclass of Exception (OSError, RuntimeError, ...).
OtherException == "Exception"

\* What each collaborator call can produce: success, its documented typed
\* error, or an unexpected exception.
ExistOutcomes == {OK, OtherException}
AvdCreateOutcomes == {OK, AVDCreationError, OtherException}
AvdDeleteOutcomes == {OK, AVDDeletionError, OtherException}
StartEmulatorOutcomes == {OK, EmulatorStartError, OtherException}
WaitForBootOutcomes == {OK, ADBError, TimeoutError, OtherException}
KillEmulatorOutcomes == {OK, ADBError, OtherException}
AdbOutcomes == {OK, ADBError}

\* The AdbClient reference held by the handle.
None == "None"
Client == "AdbClient"

\* Entries of the trace of one operation: the methods of the handle that
\* ran and the collaborator calls they made, each with its outcome.
Method(name, result) == <<"method", name, result>>
Call(name, result) == <<"call", name, result>>

VARIABLES
    state,          \* self.state
    adb_client,     \* self._adb_client
    avd,            \* the image named self.name exists (AVDManager)
    emulator,       \* EmulatorManager's process: "none", "running", "killed"
    called,         \* trace of the last operation
    pre,            \* the handle and its world when the last operation began
    prev,           \* trace of the operation before the last one
    lifecycle,      \* post-states of the create/start/stop/delete run so far
    args,           \* package_name and client listing of the last operation
    everRunning     \* the state has been RUNNING at some point

vars == <<state, adb_client, avd, emulator, called, pre, prev, lifecycle,
          args, everRunning>>

\* The handle and the world it acts on, as one value.
Dev == [state |-> state, adb_client |-> adb_client, avd |-> avd,
        emulator |-> emulator]

lastOp == called[1][2]
raised == called[1][3]

---------------------------------------------------------------------------
\* Collaborators.

\* AVDManager.exist
avd_exist(d) == d.avd

\* AVDManager.create
avd_create(d, o) == IF o = OK THEN [d EXCEPT !.avd = TRUE] ELSE d

\* AVDManager.delete
avd_delete(d, o) == IF o = OK THEN [d EXCEPT !.avd = FALSE] ELSE d

\* EmulatorManager.start_emulator
start_emulator(d, o) == IF o = OK THEN [d EXCEPT !.emulator = "running"] ELSE d

\* EmulatorManager.stop_emulator: a no-op when no process is tracked.
StopEmulatorOutcomes(d) ==
    IF d.emulator = "none" THEN {OK} ELSE {OK, OtherException}

stop_emulator(d, o) == IF o = OK THEN [d EXCEPT !.emulator = "none"] ELSE d

\* AdbClient.kill_emulator: the emulator exits, its process stays tracked.
kill_emulator(d, o) ==
    IF o = OK /\ d.emulator = "running" THEN [d EXCEPT !.emulator = "killed"]
    ELSE d

---------------------------------------------------------------------------
\* Lifecycle operations.  Each returns the device after the call, the
\* exception that left it (or OK) and the trace of what it did.

Result(d, r, name, tr) ==
    [dev |-> d, raised |-> r, trace |-> <<Method(name, r)>> \o tr]

\* Except clauses of create() that set ERROR and re-raise whatever came.
create_except_raw(d, e, tr) ==
    Result([d EXCEPT !.state = ERROR], e, "create", tr)

\* AndroidDevice.create, its two except clauses: both set ERROR; an
\* AVDCreationError is re-raised, anything else is wrapped in one.
create_except(d, e, tr) ==
    Result([d EXCEPT !.state = ERROR],
           IF e = AVDCreationError THEN e ELSE AVDCreationError,
           "create", tr)

\* create() that also calls AVDManager.create when force is set.
create_forced(d, force, oExist, oCreate) ==
    IF oExist # OK
    THEN create_except(d, oExist, <<Call("avd.exist", oExist)>>)
    ELSE IF ~avd_exist(d) \/ force
    THEN IF oCreate # OK
         THEN create_except(d, oCreate, <<Call("avd.exist", OK),
                                          Call("avd.create", oCreate)>>)
         ELSE Result([avd_create(d, OK) EXCEPT !.state = CREATED], OK,
                     "create", <<Call("avd.exist", OK),
                                 Call("avd.create", OK)>>)
    ELSE Result([d EXCEPT !.state = CREATED], OK, "create",
                <<Call("avd.exist", OK)>>)

\* create() that leaves the state alone when the image already exists.
create_silent(d, force, oExist, oCreate) ==
    IF oExist # OK
    THEN create_except(d, oExist, <<Call("avd.exist", oExist)>>)
    ELSE IF ~avd_exist(d)
    THEN IF oCreate # OK
         THEN create_except(d, oCreate, <<Call("avd.exist", OK),
                                          Call("avd.create", oCreate)>>)
         ELSE Result([avd_create(d, OK) EXCEPT !.state = CREATED], OK,
                     "create", <<Call("avd.exist", OK),
                                 Call("avd.create", OK)>>)
    ELSE Result(d, OK, "create", <<Call("avd.exist", OK)>>)

\* AndroidDevice.create
create(d, force, oExist, oCreate) ==
    IF oExist # OK
    THEN create_except(d, oExist, <<Call("avd.exist", oExist)>>)
    ELSE IF ~avd_exist(d)
    THEN IF oCreate # OK
         THEN create_except(d, oCreate, <<Call("avd.exist", OK),
                                          Call("avd.create", oCreate)>>)
         ELSE Result([avd_create(d, OK) EXCEPT !.state = CREATED], OK,
                     "create", <<Call("avd.exist", OK),
                                 Call("avd.create", OK)>>)
    ELSE Result([d EXCEPT !.state = CREATED], OK, "create",
                <<Call("avd.exist", OK)>>)

\* delete() that returns at once on a handle that is NOT_CREATED.
delete_guarded(d, oDelete) ==
    IF d.state = NOT_CREATED
    THEN Result(d, OK, "delete", <<>>)
    ELSE IF oDelete = OK
    THEN Result([avd_delete(d, OK) EXCEPT !.state = NOT_CREATED], OK,
                "delete", <<Call("avd.delete", OK)>>)
    ELSE Result([d EXCEPT !.state = ERROR], AVDDeletionError,
                "delete", <<Call("avd.delete", oDelete)>>)

\* delete() that also drops the client of the handle.
delete_discards(d, oDelete) ==
    IF oDelete = OK
    THEN Result([avd_delete(d, OK) EXCEPT !.state = NOT_CREATED,
                                         !.adb_client = None], OK,
                "delete", <<Call("avd.delete", OK)>>)
    ELSE Result([d EXCEPT !.state = ERROR], AVDDeletionError,
                "delete", <<Call("avd.delete", oDelete)>>)

\* AndroidDevice.delete
delete(d, oDelete) ==
    IF oDelete = OK
    THEN Result([avd_delete(d, OK) EXCEPT !.state = NOT_CREATED], OK,
                "delete", <<Call("avd.delete", OK)>>)
    ELSE Result([d EXCEPT !.state = ERROR], AVDDeletionError,
                "delete", <<Call("avd.delete", oDelete)>>)

\* An except clause of start() that does not name TimeoutError.
StartCaughtNoTimeout == {EmulatorStartError, ADBError}

\* The exception kinds the except clause of start() names.
StartCaught == {EmulatorStartError, ADBError, TimeoutError}

\* An except clause of start() that falls back to CREATED.
start_except_rollback(d, e, tr) ==
    IF e \in StartCaught
    THEN Result([d EXCEPT !.state = CREATED], e, "start", tr)
    ELSE Result(d, e, "start", tr)

\* An except clause of start() that drops the client it constructed.
start_except_cleanup(d, e, tr) ==
    IF e \in StartCaught
    THEN Result([d EXCEPT !.state = ERROR, !.adb_client = None], e,
                "start", tr)
    ELSE Result(d, e, "start", tr)

\* AndroidDevice.start, its except clause: a named kind sets ERROR and is
\* re-raised; any other exception leaves start() with the state as it was.
start_except(d, e, tr) ==
    IF e \in StartCaught
    THEN Result([d EXCEPT !.state = ERROR], e, "start", tr)
    ELSE Result(d, e, "start", tr)

\* AndroidDevice.start
start(d, oStart, oBoot) ==
    LET d1 == start_emulator(d, oStart)
        d2 == [d1 EXCEPT !.adb_client = Client]
    IN  IF oStart # OK
        THEN start_except(d1, oStart,
                          <<Call("emulator.start_emulator", oStart)>>)
        ELSE IF oBoot # OK
        THEN start_except(d2, oBoot,
                          <<Call("emulator.start_emulator", OK),
                            Call("AdbClient", OK),
                            Call("adb.wait_for_boot", oBoot)>>)
        ELSE Result([d2 EXCEPT !.state = RUNNING], OK, "start",
                    <<Call("emulator.start_emulator", OK),
                      Call("AdbClient", OK),
                      Call("adb.wait_for_boot", OK)>>)

\* An except clause of stop() that re-raises without touching the state.
stop_except_silent(d, e, tr) == Result(d, e, "stop", tr)

\* AndroidDevice.stop, its except clause.
stop_except(d, e, tr) == Result([d EXCEPT !.state = ERROR], e, "stop", tr)

\* stop() that terminates the process first and kills over the channel
\* afterwards.
stop_swapped(d, oKill, oStop) ==
    LET hasClient == d.adb_client # None
        killTr == IF hasClient THEN <<Call("adb.kill_emulator", oKill)>>
                  ELSE <<>>
        d1 == stop_emulator(d, OK)
        d2 == IF hasClient
              THEN [kill_emulator(d1, OK) EXCEPT !.adb_client = None]
              ELSE d1
    IN  IF oStop # OK
        THEN stop_except(d, oStop, <<Call("emulator.stop_emulator", oStop)>>)
        ELSE IF hasClient /\ oKill # OK
        THEN stop_except(d1, oKill,
                         <<Call("emulator.stop_emulator", OK)>> \o killTr)
        ELSE Result([d2 EXCEPT !.state = STOPPED], OK, "stop",
                    <<Call("emulator.stop_emulator", OK)>> \o killTr)

\* AndroidDevice.stop
stop(d, oKill, oStop) ==
    LET hasClient == d.adb_client # None
        killTr == IF hasClient THEN <<Call("adb.kill_emulator", oKill)>>
                  ELSE <<>>
        d1 == IF hasClient
              THEN [kill_emulator(d, oKill) EXCEPT !.adb_client = None]
              ELSE d
    IN  IF hasClient /\ oKill # OK
        THEN stop_except(kill_emulator(d, oKill), oKill, killTr)
        ELSE IF oStop # OK
        THEN stop_except(stop_emulator(d1, oStop), oStop,
                         killTr \o <<Call("emulator.stop_emulator", oStop)>>)
        ELSE Result([stop_emulator(d1, OK) EXCEPT !.state = STOPPED], OK,
                    "stop",
                    killTr \o <<Call("emulator.stop_emulator", OK)>>)

---------------------------------------------------------------------------
\* Control operations.

ControlOps == {"get_prop", "get_all_props", "root", "unroot", "is_root",
               "list_installed_packages", "is_package_installed",
               "install_apk", "uninstall_package"}

\* The control operations that delegate one call to the client.
DelegatingOps == ControlOps \ {"is_package_installed", "uninstall_package"}

\* The AdbClient method each control operation delegates to.
AdbMethod ==
    [get_prop |-> "adb.get_prop", get_all_props |-> "adb.get_all_props",
     root |-> "adb.root", unroot |-> "adb.unroot", is_root |-> "adb.is_root",
     list_installed_packages |-> "adb.list_installed_packages",
     install_apk |-> "adb.install_apk"]

\* A guard that looks at the client only.
ensure_client(d) == d.adb_client # None

\* AndroidDevice._ensure_running: TRUE when it returns without raising.
ensure_running(d) == ~(d.state # RUNNING \/ d.adb_client = None)

\* A delegating operation that marks the handle ERROR when the client
\* raises.
delegate_marks_error(d, op, o) ==
    IF ~ensure_running(d)
    THEN Result(d, AndroidDeviceError, op, <<>>)
    ELSE IF o # OK
    THEN Result([d EXCEPT !.state = ERROR], o, op, <<Call(AdbMethod[op], o)>>)
    ELSE Result(d, o, op, <<Call(AdbMethod[op], o)>>)

\* get_prop, get_all_props, root, unroot, is_root, list_installed_packages,
\* install_apk
delegate(d, op, o) ==
    IF ~ensure_running(d)
    THEN Result(d, AndroidDeviceError, op, <<>>)
    ELSE Result(d, o, op, <<Call(AdbMethod[op], o)>>)

\* AndroidDevice.is_package_installed; listing is what the client returns.
is_package_installed(d, package_name, oList, listing) ==
    IF ~ensure_running(d)
    THEN Result(d, AndroidDeviceError, "is_package_installed", <<>>)
    ELSE Result(d, oList, "is_package_installed",
                <<Call("adb.list_installed_packages", oList)>>)

\* uninstall_package() without the check of the listing.
uninstall_unchecked(d, package_name, oList, listing, oUninstall) ==
    LET r == is_package_installed(d, package_name, oList, listing)
    IN  IF ~ensure_running(d)
        THEN Result(d, AndroidDeviceError, "uninstall_package", <<>>)
        ELSE IF r.raised # OK
        THEN Result(d, r.raised, "uninstall_package", r.trace)
        ELSE Result(d, oUninstall, "uninstall_package",
                    r.trace \o <<Call("adb.uninstall_package", oUninstall)>>)

\* AndroidDevice.uninstall_package
uninstall_package(d, package_name, oList, listing, oUninstall) ==
    LET r == is_package_installed(d, package_name, oList, listing)
    IN  IF ~ensure_running(d)
        THEN Result(d, AndroidDeviceError, "uninstall_package", <<>>)
        ELSE IF r.raised # OK
        THEN Result(d, r.raised, "uninstall_package", r.trace)
        ELSE IF ~(package_name \in listing)
        THEN Result(d, AndroidDeviceError, "uninstall_package", r.trace)
        ELSE Result(d, oUninstall, "uninstall_package",
                    r.trace \o <<Call("adb.uninstall_package", oUninstall)>>)

---------------------------------------------------------------------------
\* Context manager.

\* An entry that stops and deletes the device when start() raised.
enter_cleanup(d, oExist, oCreate, oStart, oBoot) ==
    LET r1 == IF d.state = NOT_CREATED
              THEN create(d, FALSE, oExist, oCreate)
              ELSE [dev |-> d, raised |-> OK, trace |-> <<>>]
        r2 == start(r1.dev, oStart, oBoot)
        r3 == stop(r2.dev, OK, OK)
        r4 == delete(r3.dev, OK)
    IN  IF r1.raised # OK
        THEN Result(r1.dev, r1.raised, "__enter__", r1.trace)
        ELSE IF r2.raised # OK
        THEN Result(r4.dev, r2.raised, "__enter__",
                    r1.trace \o r2.trace \o r3.trace \o r4.trace)
        ELSE Result(r2.dev, r2.raised, "__enter__", r1.trace \o r2.trace)

\* AndroidDevice.__enter__
enter(d, oExist, oCreate, oStart, oBoot) ==
    LET r1 == IF d.state = NOT_CREATED
              THEN create(d, FALSE, oExist, oCreate)
              ELSE [dev |-> d, raised |-> OK, trace |-> <<>>]
        r2 == start(r1.dev, oStart, oBoot)
    IN  IF r1.raised # OK
        THEN Result(r1.dev, r1.raised, "__enter__", r1.trace)
        ELSE Result(r2.dev, r2.raised, "__enter__", r1.trace \o r2.trace)

\* An exit with stop() and delete() in one try block.
exit_one_try(d, oKill, oStop, oDelete) ==
    LET r1 == stop(d, oKill, oStop)
        r2 == delete(r1.dev, oDelete)
    IN  IF r1.raised # OK
        THEN Result(r1.dev, OK, "__exit__", r1.trace)
        ELSE Result(r2.dev, OK, "__exit__", r1.trace \o r2.trace)

\* AndroidDevice.__exit__
exit(d, oKill, oStop, oDelete) ==
    LET r1 == stop(d, oKill, oStop)
        r2 == delete(r1.dev, oDelete)
    IN  Result(r2.dev, OK, "__exit__", r1.trace \o r2.trace)

---------------------------------------------------------------------------
\* The run of examples/create_device.py: create, start, stop, delete on a
\* fresh handle with every collaborator call succeeding.  lifecycle is the
\* sequence of states the run has left the handle in, Off once the handle
\* has done anything else.

Canonical == <<"create", "start", "stop", "delete">>
Off == <<"off">>

ExternalsOk(tr) == \A i \in 1..Len(tr) : tr[i][1] = "call" => tr[i][3] = OK

Advance(r) ==
    IF /\ lifecycle # Off
       /\ Len(lifecycle) < Len(Canonical)
       /\ r.trace[1][2] = Canonical[Len(lifecycle) + 1]
       /\ ExternalsOk(r.trace)
    THEN Append(lifecycle, r.dev.state)
    ELSE Off

---------------------------------------------------------------------------

\* The arguments of an operation that takes no package name.
NoArgs == [package_name |-> 0, listing |-> {}]

\* The package name an operation was given and the listing the client
\* returned to it.
PackageArgs(p, oList, listing) ==
    [package_name |-> p,
     listing |-> IF ensure_running(Dev) /\ oList = OK THEN listing ELSE {}]

Init ==
    /\ state = NOT_CREATED
    /\ adb_client = None
    /\ avd \in BOOLEAN
    /\ emulator = "none"
    /\ called = <<Method("__init__", OK)>>
    /\ pre = Dev
    /\ prev = <<>>
    /\ lifecycle = <<>>
    /\ args = NoArgs
    /\ everRunning = FALSE

\* The effect of one completed operation on the handle.
Complete(r, a) ==
    /\ state' = r.dev.state
    /\ adb_client' = r.dev.adb_client
    /\ avd' = r.dev.avd
    /\ emulator' = r.dev.emulator
    /\ called' = r.trace
    /\ pre' = Dev
    /\ prev' = called
    /\ lifecycle' = Advance(r)
    /\ args' = a
    /\ everRunning' = (everRunning \/ r.dev.state = RUNNING)

Create ==
    \E force \in BOOLEAN, oExist \in ExistOutcomes,
       oCreate \in AvdCreateOutcomes :
        Complete(create(Dev, force, oExist, oCreate), NoArgs)

Delete ==
    \E oDelete \in AvdDeleteOutcomes : Complete(delete(Dev, oDelete), NoArgs)

Start ==
    \E oStart \in StartEmulatorOutcomes, oBoot \in WaitForBootOutcomes :
        Complete(start(Dev, oStart, oBoot), NoArgs)

Stop ==
    \E oKill \in KillEmulatorOutcomes, oStop \in StopEmulatorOutcomes(Dev) :
        Complete(stop(Dev, oKill, oStop), NoArgs)

Delegate ==
    \E op \in DelegatingOps, o \in AdbOutcomes :
        Complete(delegate(Dev, op, o), NoArgs)

IsPackageInstalled ==
    \E p \in Packages, oList \in AdbOutcomes, listing \in SUBSET Packages :
        Complete(is_package_installed(Dev, p, oList, listing),
                 PackageArgs(p, oList, listing))

UninstallPackage ==
    \E p \in Packages, oList \in AdbOutcomes, listing \in SUBSET Packages,
       oUninstall \in AdbOutcomes :
        Complete(uninstall_package(Dev, p, oList, listing, oUninstall),
                 PackageArgs(p, oList, listing))

Enter ==
    \E oExist \in ExistOutcomes, oCreate \in AvdCreateOutcomes,
       oStart \in StartEmulatorOutcomes, oBoot \in WaitForBootOutcomes :
        Complete(enter(Dev, oExist, oCreate, oStart, oBoot), NoArgs)

Exit ==
    \E oKill \in KillEmulatorOutcomes, oStop \in StopEmulatorOutcomes(Dev),
       oDelete \in AvdDeleteOutcomes :
        Complete(exit(Dev, oKill, oStop, oDelete), NoArgs)

Next ==
    \/ Create
    \/ Delete
    \/ Start
    \/ Stop
    \/ Delegate
    \/ IsPackageInstalled
    \/ UninstallPackage
    \/ Enter
    \/ Exit

Spec == Init /\ [][Next]_vars

---------------------------------------------------------------------------
\* Reading the trace of an operation.

\* The operation ran the method name of the handle.
Ran(tr, name) ==
    \E i \in 1..Len(tr) : tr[i][1] = "method" /\ tr[i][2] = name

\* The operation called name on a collaborator.
Made(tr, name) ==
    \E i \in 1..Len(tr) : tr[i][1] = "call" /\ tr[i][2] = name

\* The operation called name on a collaborator, with this outcome.
MadeWith(tr, name, result) == \E i \in 1..Len(tr) : tr[i] = Call(name, result)

\* How many times the operation called name on a collaborator.
Count(tr, name) ==
    Cardinality({i \in 1..Len(tr) : tr[i][1] = "call" /\ tr[i][2] = name})

\* The methods of the handle the operation ran, in order.
Methods(tr) == SelectSeq(tr, LAMBDA e : e[1] = "method")

---------------------------------------------------------------------------
\* C1: stop() always attempts both the channel-level kill (when a client is
\* held) and the process-level termination, even when the kill fails, and
\* leaves the state STOPPED if both succeeded and ERROR otherwise.
StopAttemptsBoth ==
    lastOp = "stop" =>
        /\ pre.adb_client # None => Made(called, "adb.kill_emulator")
        /\ Made(called, "emulator.stop_emulator")
        /\ state = IF ExternalsOk(called) THEN STOPPED ELSE ERROR

\* C2: between operations a client is held exactly when the state is
\* RUNNING.
ClientIffRunning == (adb_client # None) <=> (state = RUNNING)

\* C2, amended: between operations, a RUNNING handle holds a client; a
\* client may also be held in any other state.
ClientWhenRunning == state = RUNNING => adb_client # None

\* C2, witness: a handle that start() left RUNNING, holding its client.
ClientWhenRunningWitness ==
    /\ state = RUNNING
    /\ adb_client # None
    /\ Ran(called, "start")

\* C3: start() sets the state to RUNNING only after wait_for_boot returned
\* in that call, and a boot-wait timeout makes it raise TimeoutError with
\* the state ERROR.
StartRunningOnlyAfterBoot ==
    lastOp = "start" =>
        /\ state = RUNNING =>
              \/ MadeWith(called, "adb.wait_for_boot", OK)
              \/ pre.state = RUNNING /\ raised # OK
        /\ MadeWith(called, "adb.wait_for_boot", TimeoutError) =>
              raised = TimeoutError /\ state = ERROR

\* C3, witness: a start() whose boot wait timed out.
StartTimeoutWitness ==
    /\ lastOp = "start"
    /\ MadeWith(called, "adb.wait_for_boot", TimeoutError)
    /\ state = ERROR

\* C3, witness of the other half: a start() that reached RUNNING.
StartRunningWitness ==
    /\ lastOp = "start"
    /\ pre.state # RUNNING
    /\ state = RUNNING

\* C4: a control operation invoked while the state is not RUNNING raises
\* AndroidDeviceError and calls nothing on the client, held or not.
ControlGuarded ==
    (lastOp \in ControlOps /\ pre.state # RUNNING) =>
        /\ raised = AndroidDeviceError
        /\ called = <<Method(lastOp, AndroidDeviceError)>>

\* C4, witness: a control operation rejected while a client was held.
ControlGuardedWitness ==
    /\ lastOp \in ControlOps
    /\ pre.state # RUNNING
    /\ pre.adb_client # None
    /\ raised = AndroidDeviceError

\* C5: a create() that follows a create() which created the image calls
\* AVDManager.create no second time, and the state is CREATED after each.
FirstCreate == <<Method("create", OK), Call("avd.exist", OK),
                 Call("avd.create", OK)>>

LifecycleOps == {"create", "delete", "start", "stop"}

FailureSetsError ==
    (lastOp \in LifecycleOps /\ raised # OK) => state = ERROR

\* C7: once ERROR, the state stays ERROR through start, stop and control
\* operations, and is left only by a create() or delete() that succeeds.
ErrorSticky ==
    (pre.state = ERROR /\ state # ERROR) =>
        lastOp \in {"create", "delete"} /\ raised = OK

\* C7, amended: once ERROR, the state stays ERROR through control
\* operations and through lifecycle operations that raise; it is left by
\* any lifecycle operation that succeeds (create, delete, start or stop,
\* called directly or by scope entry or exit), which sets its own
\* success state.
SuccessState ==
    [create |-> CREATED, delete |-> NOT_CREATED, start |-> RUNNING,
     stop |-> STOPPED, __enter__ |-> RUNNING, __exit__ |-> NOT_CREATED]

ErrorLeftBySuccess ==
    /\ (pre.state = ERROR /\ state # ERROR) =>
           /\ lastOp \in DOMAIN SuccessState
           /\ raised = OK
           /\ state = SuccessState[lastOp]
    /\ (pre.state = ERROR /\ (lastOp \in ControlOps \/ raised # OK)) =>
           state = ERROR

\* C7, witness: a stop() that took the handle from ERROR to STOPPED.
ErrorLeftByStopWitness ==
    /\ pre.state = ERROR
    /\ lastOp = "stop"
    /\ state = STOPPED

CanonicalStates == <<CREATED, RUNNING, STOPPED, NOT_CREATED>>

FullLifecycle ==
    (lifecycle # Off /\ lifecycle # <<>>) =>
        /\ raised = OK
        /\ lifecycle = SubSeq(CanonicalStates, 1, Len(lifecycle))
        /\ state = CanonicalStates[Len(lifecycle)]

\* C9, witness: the end of the full lifecycle.
FullLifecycleWitness ==
    /\ Len(lifecycle) = 4
    /\ lastOp = "delete"
    /\ state = NOT_CREATED

\* C10: delete(), in any state, calls AVDManager.delete exactly once; when
\* that call fails it raises AVDDeletionError and the state is ERROR, when
\* it succeeds the state is NOT_CREATED.
DeleteUnguarded ==
    lastOp = "delete" =>
        /\ Count(called, "avd.delete") = 1
        /\ \/ MadeWith(called, "avd.delete", OK) /\ raised = OK
                /\ state = NOT_CREATED
           \/ ~MadeWith(called, "avd.delete", OK) /\ raised = AVDDeletionError
                /\ state = ERROR

\* C10, witness: a delete() on a NOT_CREATED handle whose tool call failed.
DeleteNotCreatedWitness ==
    /\ lastOp = "delete"
    /\ pre.state = NOT_CREATED
    /\ raised = AVDDeletionError
    /\ state = ERROR

\* C11: whenever the state is CREATED the emulator is not running: the
\* handle holds no client and no emulator process it started is alive.
CreatedMeansNotRunning ==
    state = CREATED => adb_client = None /\ emulator # "running"

\* C12: the state becomes STOPPED only on a handle that has been RUNNING
\* before, and becomes RUNNING only from a state in which the image had
\* been created (CREATED, or STOPPED after an earlier run).
StrictOrder ==
    /\ state = STOPPED => everRunning
    /\ (state = RUNNING /\ pre.state # RUNNING) =>
           pre.state \in {CREATED, STOPPED}

\* C13: a stop() on a handle that holds a client calls kill_emulator first;
\* stop_emulator is called only after kill_emulator returned and the client
\* was discarded.
KillBeforeTerminate ==
    (Ran(called, "stop") /\ pre.adb_client # None) =>
        /\ Made(called, "adb.kill_emulator")
        /\ \A i \in 1..Len(called) :
               (called[i][1] = "call"
                    /\ called[i][2] = "emulator.stop_emulator") =>
                   /\ \E j \in 1..(i - 1) :
                          called[j] = Call("adb.kill_emulator", OK)
                   /\ adb_client = None

\* C13, witness: a stop() whose kill succeeded and whose stop_emulator
\* raised, the client already discarded.
KillBeforeTerminateWitness ==
    /\ lastOp = "stop"
    /\ pre.adb_client # None
    /\ called = <<Method("stop", OtherException),
                  Call("adb.kill_emulator", OK),
                  Call("emulator.stop_emulator", OtherException)>>
    /\ adb_client = None

\* C14: __enter__ runs create() before start() whenever the image does not
\* exist, whatever the state of the handle at entry.
EnterCreatesWhenAbsent ==
    (lastOp = "__enter__" /\ ~pre.avd) =>
        /\ Len(called) >= 2
        /\ called[2][1] = "method"
        /\ called[2][2] = "create"

\* C15: every failure of create() reaches the caller as AVDCreationError,
\* every failure of delete() as AVDDeletionError, and start() re-raises
\* EmulatorStartError, ADBError and TimeoutError as they came.
ErrorsTyped ==
    /\ (lastOp = "create" /\ raised # OK) => raised = AVDCreationError
    /\ (lastOp = "delete" /\ raised # OK) => raised = AVDDeletionError
    /\ lastOp = "start" =>
           \A k \in {EmulatorStartError, ADBError, TimeoutError} :
               called[Len(called)][3] = k => raised = k

\* C15, witness: a create() in which exist() raised an unexpected
\* exception.
ErrorsTypedWitness ==
    /\ lastOp = "create"
    /\ MadeWith(called, "avd.exist", OtherException)
    /\ raised = AVDCreationError

\* C16: uninstall_package(p) on a RUNNING device whose listing does not
\* contain p raises AndroidDeviceError without calling uninstall on the
\* client; uninstall is called only after a listing that contains p.
UninstallOnlyWhenListed ==
    lastOp = "uninstall_package" =>
        /\ (/\ pre.state = RUNNING
            /\ MadeWith(called, "adb.list_installed_packages", OK)
            /\ args.package_name \notin args.listing) =>
               /\ raised = AndroidDeviceError
               /\ ~Made(called, "adb.uninstall_package")
        /\ \A j \in 1..Len(called) :
               (called[j][1] = "call"
                    /\ called[j][2] = "adb.uninstall_package") =>
                   /\ \E i \in 1..(j - 1) :
                          called[i] = Call("adb.list_installed_packages", OK)
                   /\ args.package_name \in args.listing

\* C16, witness: an uninstall of a package the listing does not contain.
UninstallNotListedWitness ==
    /\ lastOp = "uninstall_package"
    /\ pre.state = RUNNING
    /\ MadeWith(called, "adb.list_installed_packages", OK)
    /\ args.package_name \notin args.listing
    /\ raised = AndroidDeviceError

\* C17: a RUNNING handle holds a client: the state becomes RUNNING only in
\* a start() that constructed the client and saw it boot, and the client is
\* discarded only by stop(), which leaves the state STOPPED or ERROR.
RunningHoldsClient ==
    /\ state = RUNNING => adb_client # None
    /\ (state = RUNNING /\ pre.state # RUNNING) =>
           /\ Ran(called, "start")
           /\ MadeWith(called, "AdbClient", OK)
           /\ MadeWith(called, "adb.wait_for_boot", OK)
    /\ (pre.adb_client # None /\ adb_client = None) =>
           Ran(called, "stop") /\ state # RUNNING
    /\ lastOp = "stop" => state \in {STOPPED, ERROR}

\* C17, witness: a stop() of a RUNNING handle that discarded the client
\* and then failed.
RunningHoldsClientWitness ==
    /\ lastOp = "stop"
    /\ pre.state = RUNNING
    /\ adb_client = None
    /\ state = ERROR

\* C18: no control operation changes the state or the client reference,
\* whether it succeeds, is rejected by the guard or fails in the client.
ControlFrame ==
    lastOp \in ControlOps =>
        state = pre.state /\ adb_client = pre.adb_client

\* C18, witness: a control operation that failed in the client while
\* RUNNING.
ControlFrameWitness ==
    /\ lastOp \in ControlOps
    /\ raised = ADBError
    /\ state = RUNNING

\* C19: after a start() that failed at the boot wait, a stop() whose calls
\* succeed kills over the leftover client, terminates the leftover process
\* and leaves the state STOPPED with no client and no process.
BootFailed(tr) ==
    /\ Len(tr) = 4
    /\ tr[1][2] = "start"
    /\ \E k \in {ADBError, TimeoutError} : tr[4] = Call("adb.wait_for_boot", k)

FailedStartRecoverable ==
    (BootFailed(prev) /\ lastOp = "stop" /\ ExternalsOk(called)) =>
        /\ pre.state = ERROR
        /\ called = <<Method("stop", OK), Call("adb.kill_emulator", OK),
                      Call("emulator.stop_emulator", OK)>>
        /\ state = STOPPED
        /\ adb_client = None
        /\ emulator = "none"

\* C19, witness: the stop() after the failed start().
FailedStartRecoverableWitness ==
    /\ BootFailed(prev)
    /\ lastOp = "stop"
    /\ state = STOPPED

\* C20: an __enter__ that fails passes the exception on and tears nothing
\* down: it runs neither stop() nor delete(), and after a failure at the
\* boot wait the state is ERROR with the process, the client and the image
\* left in place.
EnterFailureNoTeardown ==
    (lastOp = "__enter__" /\ raised # OK) =>
        /\ ~Ran(called, "stop") /\ ~Ran(called, "delete")
        /\ ~Made(called, "adb.kill_emulator")
        /\ ~Made(called, "emulator.stop_emulator")
        /\ ~Made(called, "avd.delete")
        /\ raised = Methods(called)[Len(Methods(called))][3]
        /\ (\E k \in {ADBError, TimeoutError} :
                MadeWith(called, "adb.wait_for_boot", k)) =>
               /\ state = ERROR
               /\ emulator = "running"
               /\ adb_client = Client
               /\ avd = (pre.avd \/ MadeWith(called, "avd.create", OK))

\* C20, witness: an entry that created the image and failed at the boot
\* wait.
EnterFailureWitness ==
    /\ lastOp = "__enter__"
    /\ MadeWith(called, "avd.create", OK)
    /\ MadeWith(called, "adb.wait_for_boot", TimeoutError)
    /\ state = ERROR
    /\ avd

====
